---- MODULE Spec2Model ----
(***************************************************************************)
(* Verification model of entropy-viz: the order/chaos state machine        *)
(* (src/js/state-machine.js), the particle integrator of both backends     *)
(* (src/unnamed/part_002 = physics.wgsl, WebGLFallback.updatePhysics), the *)
(* BCC lattice generator (WebGLFallback._initParticles), the GPU frame of  *)
(* WebGPURenderer (src/js/math-utils.js) with its density and histogram    *)
(* kernels and its histogram readback, EntropyCalculator                   *)
(* (src/js/entropy-calculator.js), and the driver main() with its          *)
(* animation-frame callback (src/js/webgl-fallback.js:387-748).            *)
(*                                                                         *)
(* Number representation.  JavaScript numbers and WGSL f32 are modelled in *)
(* fixed point:                                                            *)
(*   - time (dt, elapsed, transitionDuration) in milliseconds;             *)
(*   - t_order and transitionProgress in 1/TScale (TScale = 1.0);          *)
(*   - positions, velocities and speeds in 1/PosScale world units;         *)
(*   - damping factors in 1/1000.                                          *)
(*   - grid coordinates in half cells, Gaussian weights in 1/100000;       *)
(*   - entropies in 1/1024 bit, normalised entropy in 1/TScale.            *)
(* Divisions truncate toward zero (Div); floor() is \div.                  *)
(***************************************************************************)
EXTENDS Integers, Sequences, FiniteSets, TLC

VARIABLES
  \* ---- StateMachine fields (state-machine.js:18-24)
  state, tOrder, transitionProgress, transitionDuration, elapsed,
  \* ---- observation of the calls made on the state machine
  lastOp,        \* "init" | "click" | "canvasClick" | "update": the last call
  clickFrom,     \* state in which the last accepted click() happened, or "none"
  acc,           \* sum of the dt of all update(dt) calls since that click (saturating)
  tenthRun,      \* n >= 0: exactly n updates since that click, all with dt = 0.1 s; -1 otherwise
  ignoredClick,  \* a click() arrived during the transition started by that click
  \* ---- renderer particle state (one backend per run)
  backend,       \* "webgl2" (WebGLFallback) | "webgpu" (physics.wgsl) | "none"
  particles,     \* sequence of records [pos, vel, speed, home]
  home0,         \* the home positions written at initialisation
  frames,        \* number of integration steps run so far
  pendingHistogram, \* this.pendingHistogram of the renderer: null or 64 counters
  \* ---- WebGLFallback._initParticles loop state
  latPc,         \* "idle" | "loop" | "done"
  latX, latY, latZ, latIdx,
  latParticles,  \* the Float32Array, one record [pos, vel, home, speed] per particle
  \* ---- WebGPURenderer GPU buffers (math-utils.js:218-255); density volumes are
  \*      kept sparse: a function from the indices of the non-zero cells
  density,         \* densityBuffer (atomic u32 per voxel)
  densityRead,     \* densityReadBuffer, bound to the render pass
  renderedDensity, \* the volume the last render pass sampled
  splatClean,      \* every voxel was zero when the last splat pass started
  histogram,       \* histogramBuffer: 64 atomic counters
  \* ---- WebGPURenderer histogram readback (math-utils.js:156-158, 637-655)
  rbState,         \* mapState of histReadbackBuffers[0..1]: "unmapped" | "pending"
  rbData,          \* contents of histReadbackBuffers[0..1]: [hist, frame]
  currentReadback, \* this.currentReadback
  exposedFrame,    \* frame whose histogram pendingHistogram holds (0: none)
  lastSubmits,     \* the command buffers the last frame() handed to queue.submit
  copyLog,         \* readback buffer index of every histogram copy issued so far
  gpuError,        \* a submit used a buffer that was not unmapped, or mapAsync hit one
  \* ---- speed binning of both backends applied to one speed
  binSpeed, binGL, binGPU,
  \* ---- EntropyCalculator (entropy-calculator.js:8-16) and its last call
  currentEntropy, normalizedEntropy,
  entHistogram,    \* <<the histogram passed to the last compute()>>, <<>> before the first
  entReturned,     \* <<the object the last compute() returned>>, <<>> before the first
  \* ---- the driver main() and its frame callback (webgl-fallback.js:387-527
  \*      earlier version, 528-748 current version)
  mainVersion,     \* which of the two main() of the file runs: "earlier" | "current"
  drvPc,           \* position of main(): "idle" | "detect" | "initRenderer" | "loop" | "failed"
  useWebGPU,       \* let useWebGPU
  canvasContext,   \* context type the canvas is bound to: "none" | "webgpu" | "webgl2"
  rendererReady,   \* renderer.init() of the renderer in use has returned
  rafPending,      \* a requestAnimationFrame(frame) callback is outstanding
  ticks,           \* frame callbacks run so far
  lastTick         \* <<what the last frame callback did>>, <<>> before the first

smVars   == <<state, tOrder, transitionProgress, transitionDuration, elapsed>>
obsVars  == <<lastOp, clickFrom, acc, tenthRun, ignoredClick>>
physVars == <<backend, particles, home0, frames, pendingHistogram>>
latVars  == <<latPc, latX, latY, latZ, latIdx, latParticles>>
gpuVars  == <<density, densityRead, renderedDensity, splatClean, histogram,
              rbState, rbData, currentReadback, exposedFrame, lastSubmits, copyLog, gpuError>>
binVars  == <<binSpeed, binGL, binGPU>>
entVars  == <<currentEntropy, normalizedEntropy, entHistogram, entReturned>>
drvVars  == <<mainVersion, drvPc, useWebGPU, canvasContext, rendererReady, rafPending,
              ticks, lastTick>>
vars     == <<smVars, obsVars, physVars, latVars, gpuVars, binVars, entVars, drvVars>>

----------------------------------------------------------------------------
(* Fixed-point helpers *)

Min(a, b) == IF a <= b THEN a ELSE b

\* division truncating toward zero
Div(a, b) == IF a >= 0 THEN a \div b ELSE -((-a) \div b)

\* resolution of t_order and transitionProgress: TScale stands for 1.0
TScale == 1000

----------------------------------------------------------------------------
(* StateMachine (src/js/state-machine.js) *)

ORDERED      == "ORDERED"
SHATTERING   == "SHATTERING"
CHAOS        == "CHAOS"
REASSEMBLING == "REASSEMBLING"
State        == {ORDERED, SHATTERING, CHAOS, REASSEMBLING}

\* transition durations, in milliseconds
ShatterDuration    == 1500
ReassembleDuration == 2000

\* function easeOutCubic(t) { return 1 - Math.pow(1 - t, 3); }
easeOutCubic(t) ==
  TScale - Div((TScale - t) * (TScale - t) * (TScale - t), TScale * TScale)

\* a plausible slip: the t >= 0.5 branch of easeInOutQuad is missing
easeInOutQuadNoBranch(t) == Div(2 * t * t, TScale)

\* function easeInOutQuad(t) { return t < 0.5 ? 2*t*t : 1 - Math.pow(-2*t + 2, 2) / 2; }
easeInOutQuad(t) ==
  IF 2 * t < TScale
    THEN Div(2 * t * t, TScale)
    ELSE TScale - Div(Div((2 * TScale - 2 * t) * (2 * TScale - 2 * t), TScale), 2)

\* get canClick()
canClick == state = ORDERED \/ state = CHAOS

\* a plausible slip: the guard tests "not in CHAOS" instead of "in ORDERED", so a
\* click during SHATTERING restarts the shatter transition
ClickRestarts ==
  IF state = ORDERED \/ state = SHATTERING
    THEN /\ state' = SHATTERING
         /\ transitionDuration' = ShatterDuration
         /\ transitionProgress' = 0
         /\ elapsed' = 0
         /\ UNCHANGED tOrder
    ELSE IF state = CHAOS
      THEN /\ state' = REASSEMBLING
           /\ transitionDuration' = ReassembleDuration
           /\ transitionProgress' = 0
           /\ elapsed' = 0
           /\ UNCHANGED tOrder
      ELSE UNCHANGED smVars

\* a plausible slip: the CHAOS branch was copied from the ORDERED branch and kept
\* its duration of 1.5 s
ClickSameDuration ==
  IF state = ORDERED
    THEN /\ state' = SHATTERING
         /\ transitionDuration' = ShatterDuration
         /\ transitionProgress' = 0
         /\ elapsed' = 0
         /\ UNCHANGED tOrder
    ELSE IF state = CHAOS
      THEN /\ state' = REASSEMBLING
           /\ transitionDuration' = ShatterDuration
           /\ transitionProgress' = 0
           /\ elapsed' = 0
           /\ UNCHANGED tOrder
      ELSE UNCHANGED smVars

\* click()
Click ==
  IF state = ORDERED
    THEN /\ state' = SHATTERING
         /\ transitionDuration' = ShatterDuration
         /\ transitionProgress' = 0
         /\ elapsed' = 0
         /\ UNCHANGED tOrder
    ELSE IF state = CHAOS
      THEN /\ state' = REASSEMBLING
           /\ transitionDuration' = ReassembleDuration
           /\ transitionProgress' = 0
           /\ elapsed' = 0
           /\ UNCHANGED tOrder
      ELSE UNCHANGED smVars

\* Math.min(this.elapsed / this.transitionDuration, 1.0)
Progress(e, duration) == Min(Div(e * TScale, duration), TScale)

\* a plausible slip: the completion test is "> 1.0" instead of ">= 1.0"
UpdateStrictCompletion(dt) ==
  IF state = SHATTERING
    THEN LET e == elapsed + dt
             p == Progress(e, transitionDuration)
         IN  /\ elapsed' = e
             /\ transitionProgress' = p
             /\ IF p > TScale
                  THEN state' = CHAOS /\ tOrder' = 0
                  ELSE state' = state /\ tOrder' = TScale - easeOutCubic(p)
             /\ UNCHANGED transitionDuration
    ELSE IF state = REASSEMBLING
      THEN LET e == elapsed + dt
               p == Progress(e, transitionDuration)
           IN  /\ elapsed' = e
               /\ transitionProgress' = p
               /\ IF p > TScale
                    THEN state' = ORDERED /\ tOrder' = TScale
                    ELSE state' = state /\ tOrder' = easeInOutQuad(p)
               /\ UNCHANGED transitionDuration
      ELSE UNCHANGED smVars

\* a plausible slip: the two forced end values are swapped between the branches
UpdateSwappedEnds(dt) ==
  IF state = SHATTERING
    THEN LET e == elapsed + dt
             p == Progress(e, transitionDuration)
         IN  /\ elapsed' = e
             /\ transitionProgress' = p
             /\ IF p >= TScale
                  THEN state' = CHAOS /\ tOrder' = TScale
                  ELSE state' = state /\ tOrder' = TScale - easeOutCubic(p)
             /\ UNCHANGED transitionDuration
    ELSE IF state = REASSEMBLING
      THEN LET e == elapsed + dt
               p == Progress(e, transitionDuration)
           IN  /\ elapsed' = e
               /\ transitionProgress' = p
               /\ IF p >= TScale
                    THEN state' = ORDERED /\ tOrder' = 0
                    ELSE state' = state /\ tOrder' = easeInOutQuad(p)
               /\ UNCHANGED transitionDuration
      ELSE UNCHANGED smVars

\* a plausible slip: elapsed += dt is hoisted out of the two branches, so
\* update(dt) also advances the timer in ORDERED and CHAOS
UpdateAlwaysAdvances(dt) ==
  IF state = SHATTERING
    THEN LET e == elapsed + dt
             p == Progress(e, transitionDuration)
         IN  /\ elapsed' = e
             /\ transitionProgress' = p
             /\ IF p >= TScale
                  THEN state' = CHAOS /\ tOrder' = 0
                  ELSE state' = state /\ tOrder' = TScale - easeOutCubic(p)
             /\ UNCHANGED transitionDuration
    ELSE IF state = REASSEMBLING
      THEN LET e == elapsed + dt
               p == Progress(e, transitionDuration)
           IN  /\ elapsed' = e
               /\ transitionProgress' = p
               /\ IF p >= TScale
                    THEN state' = ORDERED /\ tOrder' = TScale
                    ELSE state' = state /\ tOrder' = easeInOutQuad(p)
               /\ UNCHANGED transitionDuration
      ELSE /\ elapsed' = elapsed + dt
           /\ UNCHANGED <<state, tOrder, transitionProgress, transitionDuration>>

\* update(dt)
Update(dt) ==
  IF state = SHATTERING
    THEN LET e == elapsed + dt
             p == Progress(e, transitionDuration)
         IN  /\ elapsed' = e
             /\ transitionProgress' = p
             /\ IF p >= TScale
                  THEN state' = CHAOS /\ tOrder' = 0
                  ELSE state' = state /\ tOrder' = TScale - easeOutCubic(p)
             /\ UNCHANGED transitionDuration
    ELSE IF state = REASSEMBLING
      THEN LET e == elapsed + dt
               p == Progress(e, transitionDuration)
           IN  /\ elapsed' = e
               /\ transitionProgress' = p
               /\ IF p >= TScale
                    THEN state' = ORDERED /\ tOrder' = TScale
                    ELSE state' = state /\ tOrder' = easeInOutQuad(p)
               /\ UNCHANGED transitionDuration
      ELSE UNCHANGED smVars

\* constructor()
SMInit ==
  /\ state = ORDERED
  /\ tOrder = TScale
  /\ transitionProgress = 0
  /\ transitionDuration = 0
  /\ elapsed = 0

----------------------------------------------------------------------------
(* Calls made on the state machine, with their observation *)

\* the dt values passed to update(dt), in milliseconds (all >= 0)
DtValues == {0, 10, 50, 70, 100, 1500, 2000, 2600}
\* the dt of the 15-step scenario: 0.1 s, fifteen of which make up ShatterDuration
TenthOfSecond == ShatterDuration \div 15

\* saturation of the observation counters
AccCap   == 2100
MaxTenth == 16

ObsInit ==
  /\ lastOp = "init"
  /\ clickFrom = "none"
  /\ acc = 0
  /\ tenthRun = -1
  /\ ignoredClick = FALSE

ObserveClick ==
  IF state' # state
    THEN /\ clickFrom' = state
         /\ acc' = 0
         /\ tenthRun' = 0
         /\ ignoredClick' = FALSE
    ELSE /\ ignoredClick' = (ignoredClick \/ state \in {SHATTERING, REASSEMBLING})
         /\ UNCHANGED <<clickFrom, acc, tenthRun>>

\* stateMachine.click() called directly
ClickCall ==
  /\ Click
  /\ lastOp' = "click"
  /\ ObserveClick
  /\ UNCHANGED <<physVars, latVars, gpuVars, binVars, entVars, drvVars>>

\* the canvas 'click' / 'touchend' handlers (webgl-fallback.js:668-682):
\*   if (stateMachine.canClick) { stateMachine.click(); }
CanvasClick ==
  /\ IF canClick THEN Click ELSE UNCHANGED smVars
  /\ lastOp' = "canvasClick"
  /\ ObserveClick
  /\ UNCHANGED <<physVars, latVars, gpuVars, binVars, entVars, drvVars>>

\* stateMachine.update(dt)
\* (the observer's bookkeeping first)
ObserveUpdate(dt) ==
  /\ lastOp' = "update"
  /\ acc' = Min(acc + dt, AccCap)
  /\ tenthRun' = IF tenthRun >= 0 /\ dt = TenthOfSecond
                   THEN Min(tenthRun + 1, MaxTenth)
                   ELSE -1
  /\ UNCHANGED <<clickFrom, ignoredClick>>

UpdateCall ==
  \E dt \in DtValues :
    /\ Update(dt)
    /\ ObserveUpdate(dt)
    /\ UNCHANGED <<physVars, latVars, gpuVars, binVars, entVars, drvVars>>

\* the value of pendingHistogram before the first histogram: no counters
null == <<>>

PhysIdle ==
  /\ backend = "none"
  /\ particles = <<>>
  /\ home0 = <<>>
  /\ frames = 0
  /\ pendingHistogram = null

LatIdle ==
  /\ latPc = "idle"
  /\ latX = 0 /\ latY = 0 /\ latZ = 0 /\ latIdx = 0
  /\ latParticles = <<>>

\* number of speed bins of both backends
HIST_BINS == 64

\* a density volume with every voxel zero
EmptyVolume == [gi \in {} |-> 0]
\* a histogram buffer with every counter zero
ZeroHistogram == [k \in 0..(HIST_BINS - 1) |-> 0]

\* WebGPURenderer after the constructor and _createBuffers: buffers are
\* zero-initialised, both readback buffers unmapped, nothing exposed
GpuBuffersInit ==
  /\ density = EmptyVolume
  /\ densityRead = EmptyVolume
  /\ renderedDensity = EmptyVolume
  /\ splatClean = TRUE
  /\ histogram = ZeroHistogram
  /\ rbState = [i \in 0..1 |-> "unmapped"]
  /\ rbData = [i \in 0..1 |-> [hist |-> ZeroHistogram, frame |-> 0]]
  /\ currentReadback = 0
  /\ exposedFrame = 0
  /\ lastSubmits = <<>>
  /\ copyLog = <<>>
  /\ gpuError = FALSE

BinIdle ==
  /\ binSpeed = 0
  /\ binGL = -1
  /\ binGPU = -1

\* new EntropyCalculator(): both entropies 0, compute() not called yet
EntInit ==
  /\ currentEntropy = 0
  /\ normalizedEntropy = 0
  /\ entHistogram = <<>>
  /\ entReturned = <<>>

\* main() is not running
DrvIdle ==
  /\ mainVersion = "current"
  /\ drvPc = "idle"
  /\ useWebGPU = FALSE
  /\ canvasContext = "none"
  /\ rendererReady = FALSE
  /\ rafPending = FALSE
  /\ ticks = 0
  /\ lastTick = <<>>

Init == SMInit /\ ObsInit /\ PhysIdle /\ LatIdle /\ GpuBuffersInit /\ BinIdle /\ EntInit /\ DrvIdle
Next == ClickCall \/ CanvasClick \/ UpdateCall
Spec == Init /\ [][Next]_vars

----------------------------------------------------------------------------
(* Vectors and lengths in fixed point *)

\* resolution of positions, velocities and speeds: PosScale stands for 1.0
PosScale == 100

VAdd(a, b) == <<a[1] + b[1], a[2] + b[2], a[3] + b[3]>>
VSub(a, b) == <<a[1] - b[1], a[2] - b[2], a[3] - b[3]>>
\* v * num / den, componentwise
VMulDiv(v, num, den) == <<Div(v[1] * num, den), Div(v[2] * num, den), Div(v[3] * num, den)>>

RECURSIVE SqrtSearch(_, _, _)
SqrtSearch(n, lo, hi) ==
  IF lo >= hi THEN lo
  ELSE LET mid == (lo + hi + 1) \div 2
       IN  IF mid * mid <= n THEN SqrtSearch(n, mid, hi) ELSE SqrtSearch(n, lo, mid - 1)

\* Math.sqrt / WGSL sqrt, rounded down
Sqrt(n) == SqrtSearch(n, 0, 46340)

\* Math.sqrt(x**2 + y**2 + z**2) / WGSL length(v)
Length(v) == Sqrt(v[1] * v[1] + v[2] * v[2] + v[3] * v[3])

----------------------------------------------------------------------------
(* BCC lattice positions (WebGLFallback._initParticles, _generateBCCLattice) *)

GL_PARTICLE_COUNT  == 512
GPU_PARTICLE_COUNT == 2048

ParticleCount(b) == IF b = "webgpu" THEN GPU_PARTICLE_COUNT ELSE GL_PARTICLE_COUNT

\* a plausible slip: Math.floor instead of Math.ceil
SideFloor(n) == CHOOSE sd \in 0..64 : 2 * sd * sd * sd <= n /\ 2 * (sd + 1) * (sd + 1) * (sd + 1) > n

\* const side = Math.ceil(Math.cbrt(PARTICLE_COUNT / 2));
Side(n) == CHOOSE sd \in 1..64 : 2 * sd * sd * sd >= n /\ 2 * (sd - 1) * (sd - 1) * (sd - 1) < n

\* (i - side / 2 + off / 2) * spacing with spacing = 5.0 / side;
\* off = 1 for the corner atom (+ 0.5), off = 2 for the body-centre atom (+ 1.0)
LatticeCoord(i, off, sd) == Div((2 * i - sd + off) * 5 * PosScale, 2 * sd)

LatticePoint(x, y, z, off, sd) ==
  <<LatticeCoord(x, off, sd), LatticeCoord(y, off, sd), LatticeCoord(z, off, sd)>>

\* the record written for one atom: position and home at the lattice point,
\* velocity and speed zero
NewParticle(pt) == [pos |-> pt, vel |-> <<0, 0, 0>>, speed |-> 0, home |-> pt]

\* the record the loops write at 0-based index i: the loops fill cell after cell,
\* x fastest, two atoms per cell
LatticeRecord(i, sd) ==
  LET c == i \div 2
      x == c % sd
      y == (c \div sd) % sd
      z == c \div (sd * sd)
  IN  NewParticle(LatticePoint(x, y, z, IF i % 2 = 0 THEN 1 ELSE 2, sd))

----------------------------------------------------------------------------
(* Particle integration: WebGLFallback.updatePhysics and physics.wgsl main *)

springK     == 12
noiseStr    == 4
dampOrdered == 970    \* 0.97
dampChaos   == 999    \* 0.999
max_speed   == 8

MaxSpeed    == max_speed * PosScale
\* soft boundary radius 4.5
BoundaryR   == (45 * PosScale) \div 10

\* largest |rand()| of the fallback generator, in 1/1000:  (seed / 0x7fffffff) * 2 - 1
GLRandMax   == 1000
\* largest |randNormal| of the kernel, in 1/1000: sqrt(-2 ln 0.0001) = 4.2919
GPURandMax  == 4291

\* noise_sample * noiseStr * (1 - t) per axis; samples are in 1/1000
NoiseForce(n, t) ==
  <<Div(Div(n[1] * noiseStr * (TScale - t), TScale) * PosScale, 1000),
    Div(Div(n[2] * noiseStr * (TScale - t), TScale) * PosScale, 1000),
    Div(Div(n[3] * noiseStr * (TScale - t), TScale) * PosScale, 1000)>>

\* if (spd > 8) { v *= 8 / spd }
ClampSpeed(v) ==
  LET spd == Length(v) IN IF spd > MaxSpeed THEN VMulDiv(v, MaxSpeed, spd) ELSE v

\* soft boundary: velocity after the inward push for the integrated position pos
SoftBoundary(pos, v, dt) ==
  LET dist == Length(pos)
  IN  IF dist > BoundaryR
        THEN LET push == VMulDiv(pos, (dist - BoundaryR) * 2, dist)
             IN  VSub(v, VMulDiv(push, dt, 1000))
        ELSE v

\* const damping = dampChaos + (dampOrdered - dampChaos) * tOrder;
GLDamping(t) == dampChaos + Div((dampOrdered - dampChaos) * t, TScale)

\* a plausible slip: the integrated position is also stored at offsets b+6..b+8,
\* the home slots
GLParticleStepMovesHome(p, dt, t, n) ==
  LET d    == VSub(p.home, p.pos)
      f    == VAdd(VMulDiv(d, springK * t, TScale), NoiseForce(n, t))
      v1   == VAdd(VMulDiv(p.vel, GLDamping(t), 1000), VMulDiv(f, dt, 1000))
      v2   == ClampSpeed(v1)
      pos2 == VAdd(p.pos, VMulDiv(v2, dt, 1000))
      spd  == Length(v2)
      v3   == SoftBoundary(pos2, v2, dt)
  IN  [pos |-> pos2, vel |-> v3, speed |-> spd, home |-> pos2]

\* a plausible slip: the integrated position is not written back
GLParticleStepKeepsPosition(p, dt, t, n) ==
  LET d    == VSub(p.home, p.pos)
      f    == VAdd(VMulDiv(d, springK * t, TScale), NoiseForce(n, t))
      v1   == VAdd(VMulDiv(p.vel, GLDamping(t), 1000), VMulDiv(f, dt, 1000))
      v2   == ClampSpeed(v1)
      pos2 == VAdd(p.pos, VMulDiv(v2, dt, 1000))
      spd  == Length(v2)
      v3   == SoftBoundary(pos2, v2, dt)
  IN  [pos |-> p.pos, vel |-> v3, speed |-> spd, home |-> p.home]

\* one iteration of the particle loop of updatePhysics (webgl-fallback.js:239-274)
GLParticleStep(p, dt, t, n) ==
  LET d    == VSub(p.home, p.pos)
      f    == VAdd(VMulDiv(d, springK * t, TScale), NoiseForce(n, t))
      v1   == VAdd(VMulDiv(p.vel, GLDamping(t), 1000), VMulDiv(f, dt, 1000))
      v2   == ClampSpeed(v1)
      pos2 == VAdd(p.pos, VMulDiv(v2, dt, 1000))
      spd  == Length(v2)                       \* particles[b+9], line 264
      v3   == SoftBoundary(pos2, v2, dt)       \* lines 266-273
  IN  [pos |-> pos2, vel |-> v3, speed |-> spd, home |-> p.home]

\* const bin = Math.min(Math.floor((spd / 8.0) * HIST_BINS), HIST_BINS - 1);
GLBin(spd) == Min((spd * HIST_BINS) \div MaxSpeed, HIST_BINS - 1)

\* the histogram loop of updatePhysics (webgl-fallback.js:276-283)
GLHistogram(ps) ==
  [k \in 0..(HIST_BINS - 1) |->
     Cardinality({i \in 1..Len(ps) : GLBin(ps[i].speed) = k})]

\* mix(damping_chaos, damping_ordered, t) = chaos * (1 - t) + ordered * t
GPUDamping(t) == Div(dampChaos * (TScale - t) + dampOrdered * t, TScale)

\* one invocation of physics.wgsl main (part_002:47-93)
GPUParticleStep(p, dt, t, n) ==
  LET displacement == VSub(p.home, p.pos)
      spring_force == VMulDiv(displacement, springK * t, TScale)
      noise_force  == NoiseForce(n, t)
      v1   == VAdd(VMulDiv(p.vel, GPUDamping(t), 1000),
                   VMulDiv(VAdd(spring_force, noise_force), dt, 1000))
      v2   == ClampSpeed(v1)
      pos2 == VAdd(p.pos, VMulDiv(v2, dt, 1000))
      v3   == SoftBoundary(pos2, v2, dt)
  IN  [pos |-> pos2, vel |-> v3, speed |-> Length(v3), home |-> p.home]

\* number of particles simulated by the model (the first ones of the lattice)
NumParticles == 2
\* number of integration steps explored
MaxFrames == 2

\* dt (ms) and t_order passed to the integrator; noise samples per particle
PhysDtValues == {0, 50, 500}
TValues      == {0, TScale \div 2, TScale}
NoiseVecs(b) ==
  LET r == IF b = "webgpu" THEN GPURandMax ELSE GLRandMax
  IN  {<<-r, -r, -r>>, <<r, -r, 0>>}

\* particle buffer after _initParticles / _generateBCCLattice
PhysInit ==
  /\ backend \in {"webgl2", "webgpu"}
  /\ particles = [i \in 1..NumParticles |-> LatticeRecord(i - 1, Side(ParticleCount(backend)))]
  /\ home0 = [i \in 1..NumParticles |-> particles[i].home]
  /\ frames = 0
  /\ pendingHistogram = null

\* WebGLFallback.updatePhysics(dt, tOrder, time): every particle is stepped,
\* then the histogram is rebuilt from the new speeds
updatePhysics(dt, t) ==
  \E ns \in [1..Len(particles) -> NoiseVecs(backend)] :
    /\ particles' = [i \in 1..Len(particles) |-> GLParticleStep(particles[i], dt, t, ns[i])]
    /\ pendingHistogram' = GLHistogram(particles')

\* updatePhysics called with any dt and t_order
GLUpdatePhysics ==
  /\ backend = "webgl2"
  /\ frames < MaxFrames
  /\ \E dt \in PhysDtValues, t \in TValues : updatePhysics(dt, t)
  /\ frames' = frames + 1
  /\ UNCHANGED <<backend, home0, smVars, obsVars, latVars, gpuVars, binVars, entVars, drvVars>>

\* the physics compute pass: one invocation of main per particle
physicsPass(dt, t) ==
  \E ns \in [1..Len(particles) -> NoiseVecs(backend)] :
    particles' = [i \in 1..Len(particles) |-> GPUParticleStep(particles[i], dt, t, ns[i])]

\* the physics pass dispatched with any dt and t_order
GPUPhysicsPass ==
  /\ backend = "webgpu"
  /\ frames < MaxFrames
  /\ \E dt \in PhysDtValues, t \in TValues : physicsPass(dt, t)
  /\ frames' = frames + 1
  /\ UNCHANGED <<backend, home0, pendingHistogram, smVars, obsVars, latVars, gpuVars, binVars, entVars, drvVars>>

PhysicsInit == SMInit /\ ObsInit /\ PhysInit /\ LatIdle /\ GpuBuffersInit /\ BinIdle /\ EntInit /\ DrvIdle
PhysicsNext == GLUpdatePhysics \/ GPUPhysicsPass
SpecPhysics == PhysicsInit /\ [][PhysicsNext]_vars

\* Spring relaxation: the integrator of either backend stepped for ever with
\* t_order = 1 and dt = 16 ms, from particle states the simulation can leave
\* behind: at home, displaced from home (also beyond the soft boundary), at
\* rest or at the maximum speed
RelaxDt == 16

RelaxOffsets == {<<0, 0, 0>>, <<60, 0, 0>>, <<-250, 100, 0>>, <<-300, -300, -300>>,
                 <<400, 400, 400>>}
RelaxVels == {<<0, 0, 0>>, <<MaxSpeed, 0, 0>>, <<0, -MaxSpeed, 0>>}

RelaxParticleInit ==
  /\ backend \in {"webgl2", "webgpu"}
  /\ \E off \in RelaxOffsets, v \in RelaxVels :
       LET h == LatticeRecord(0, Side(ParticleCount(backend))).home
       IN  particles = <<[pos |-> VAdd(h, off), vel |-> v, speed |-> Length(v), home |-> h]>>
  /\ home0 = <<particles[1].home>>
  /\ frames = 0
  /\ pendingHistogram = null

\* one more integration step in the ORDERED state; frames keeps the parity
\* of the number of steps taken
RelaxStep ==
  /\ backend \in {"webgl2", "webgpu"}
  /\ IF backend = "webgl2"
       THEN updatePhysics(RelaxDt, TScale)
       ELSE physicsPass(RelaxDt, TScale) /\ UNCHANGED pendingHistogram
  /\ frames' = 1 - frames
  /\ UNCHANGED <<backend, home0, smVars, obsVars, latVars, gpuVars, binVars, entVars, drvVars>>

RelaxInit == SMInit /\ ObsInit /\ RelaxParticleInit /\ LatIdle /\ GpuBuffersInit /\ BinIdle /\ EntInit /\ DrvIdle
RelaxNext == RelaxStep
\* the steps of RelaxStep are the steps that change the parity
StepCounted == frames' # frames
\* the animation-frame callback keeps calling the integrator (a step can
\* always be taken, so this is weak fairness of RelaxStep)
RelaxFairness == []<><<StepCounted>>_vars
SpecRelax == RelaxInit /\ [][RelaxNext]_vars /\ RelaxFairness

----------------------------------------------------------------------------
(* The lattice loops of _initParticles (webgl-fallback.js:47-82) and of      *)
(* _generateBCCLattice (math-utils.js:300-356), one cell per step            *)

\* new Float32Array(PARTICLE_COUNT * 10): every record zero
ZeroRecord == [pos |-> <<0, 0, 0>>, vel |-> <<0, 0, 0>>, speed |-> 0, home |-> <<0, 0, 0>>]

LatN    == ParticleCount(backend)
LatSide == Side(LatN)

LatInit ==
  /\ latPc = "loop"
  /\ latX = 0 /\ latY = 0 /\ latZ = 0 /\ latIdx = 0
  /\ latParticles = [i \in 1..LatN |-> ZeroRecord]

\* the body of the innermost loop for cell (latX, latY, latZ), then the loop
\* headers up to the next cell or to the end of the outermost loop
LatticeCell ==
  /\ latPc = "loop"
  /\ LET corner == latIdx < LatN
         idx1   == IF corner THEN latIdx + 1 ELSE latIdx
         body   == idx1 < LatN
         idx2   == IF body THEN idx1 + 1 ELSE idx1
         ps1    == IF corner
                     THEN [latParticles EXCEPT ![latIdx + 1] =
                             NewParticle(LatticePoint(latX, latY, latZ, 1, LatSide))]
                     ELSE latParticles
         ps2    == IF body
                     THEN [ps1 EXCEPT ![idx1 + 1] =
                             NewParticle(LatticePoint(latX, latY, latZ, 2, LatSide))]
                     ELSE ps1
         more   == idx2 < LatN
     IN  /\ latParticles' = ps2
         /\ latIdx' = idx2
         /\ IF latX + 1 < LatSide /\ more
              THEN latX' = latX + 1 /\ UNCHANGED <<latY, latZ, latPc>>
              ELSE IF latY + 1 < LatSide /\ more
                THEN latX' = 0 /\ latY' = latY + 1 /\ UNCHANGED <<latZ, latPc>>
                ELSE IF latZ + 1 < LatSide /\ more
                  THEN latX' = 0 /\ latY' = 0 /\ latZ' = latZ + 1 /\ UNCHANGED latPc
                  ELSE latPc' = "done" /\ UNCHANGED <<latX, latY, latZ>>
  /\ UNCHANGED <<smVars, obsVars, physVars, gpuVars, binVars, entVars, drvVars>>

LatticePhysIdle ==
  /\ backend \in {"webgl2", "webgpu"}
  /\ particles = <<>>
  /\ home0 = <<>>
  /\ frames = 0
  /\ pendingHistogram = null

LatticeInit == SMInit /\ ObsInit /\ LatticePhysIdle /\ LatInit /\ GpuBuffersInit /\ BinIdle /\ EntInit /\ DrvIdle
LatticeNext == LatticeCell
SpecLattice == LatticeInit /\ [][LatticeNext]_vars

----------------------------------------------------------------------------
(* The density volume (density-clear.wgsl, density-splat.wgsl in             *)
(* src/js/color-map.js)                                                      *)

GRID_RES       == 64
splat_radius   == 2      \* densF[10] = 2.0, in grid cells
splat_strength == 1500   \* densF[11] = 1.5, in 1/1000
\* the fixed-point factor of the splat: contribution = u32(... * 1000.0)
FixedPoint     == 1000

GRID_VOXELS == GRID_RES * GRID_RES * GRID_RES
GridMin     == -((35 * PosScale) \div 10)
GridMax     == (35 * PosScale) \div 10

\* grid coordinates are kept in half cells: 2 * floor(x) + (1 if frac(x) >= 0.5)
GSub == 2
\* Gaussian weights are kept in 1/WeightScale
WeightScale == 100 * FixedPoint

\* worldToGrid, one coordinate: (pos - grid_min) / (grid_max - grid_min) * grid_res
worldToGrid(x) == ((x - GridMin) * GRID_RES * GSub) \div (GridMax - GridMin)

gridIndex(ix, iy, iz) == ix + iy * GRID_RES + iz * GRID_RES * GRID_RES

\* the cell <<x, y, z>> of a voxel index
CellOf(gi) == <<gi % GRID_RES, (gi \div GRID_RES) % GRID_RES, gi \div (GRID_RES * GRID_RES)>>

\* exp(-e / 8) in 1/WeightScale, for e = 0..75
ExpNegEighths ==
  <<
     100000, 88250, 77880, 68729, 60653, 53526, 47237, 41686,
     36788, 32465, 28650, 25284, 22313, 19691, 17377, 15335,
     13534, 11943, 10540, 9301, 8208, 7244, 6393, 5642,
     4979, 4394, 3877, 3422, 3020, 2665, 2352, 2075,
     1832, 1616, 1426, 1259, 1111, 980, 865, 764,
     674, 595, 525, 463, 409, 361, 318, 281,
     248, 219, 193, 170, 150, 133, 117, 103,
     91, 80, 71, 63, 55, 49, 43, 38,
     34, 30, 26, 23, 20, 18, 16, 14,
     12, 11, 10, 8
  >>

\* weight = exp(-dist * dist / (2.0 * sigma * sigma)), sigma = splat_radius * 0.5;
\* q is dist * dist in 1/(GSub * GSub) cells^2
GaussWeight(q) ==
  ExpNegEighths[(16 * q) \div (GSub * GSub * splat_radius * splat_radius) + 1]

\* center = floor(gridPos), per coordinate
SplatCenter(p) == [k \in 1..3 |-> worldToGrid(p.pos[k]) \div GSub]

\* a plausible slip: the bounds check of the splat loop is missing
InGridAlways(v) == TRUE

\* the bounds check on one coordinate of a cell:
\*   if (cell.x < 0 || cell.x >= res || ...) { continue; }
InGrid(v) == v >= 0 /\ v < GRID_RES

\* the cells the three loops dz, dy, dx = -r..r visit and the bounds check keeps
SplatLoopCells(p) ==
  LET r == splat_radius
      c == SplatCenter(p)
      R(k) == {v \in (c[k] - r)..(c[k] + r) : InGrid(v)}
  IN  {<<x, y, z>> : x \in R(1), y \in R(2), z \in R(3)}

\* squared distance from gridPos to the centre of a cell, in 1/(GSub * GSub)
SplatDist2(p, cell) ==
  LET o(k) == worldToGrid(p.pos[k]) - (GSub * cell[k] + GSub \div 2)
  IN  o(1) * o(1) + o(2) * o(2) + o(3) * o(3)

\* u32(weight * splat_strength * speed_factor * 1000.0),
\* speed_factor = 1.0 + p.speed * 0.3
Contribution(p, cell) ==
  LET weight       == GaussWeight(SplatDist2(p, cell))
      speed_factor == PosScale + (p.speed * 3) \div 10
      ws           == (weight * splat_strength) \div FixedPoint
  IN  ((ws * speed_factor) \div PosScale) \div (WeightScale \div FixedPoint)

\* cell is one of the cells of SplatLoopCells(p)
InSplatLoop(p, cell) ==
  \A k \in 1..3 :
    \E c \in {worldToGrid(p.pos[k]) \div GSub} :
      /\ cell[k] >= c - splat_radius /\ cell[k] <= c + splat_radius
      /\ InGrid(cell[k])

\* what one invocation adds to voxel gi (0: the voxel is not touched)
ContribAt(p, gi) ==
  IF InSplatLoop(p, CellOf(gi)) THEN Contribution(p, CellOf(gi)) ELSE 0

\* the voxels one invocation does an atomicAdd on: contribution > 0u
SplatTargets(p) ==
  {gridIndex(c[1], c[2], c[3]) : c \in {cc \in SplatLoopCells(p) : Contribution(p, cc) > 0}}

VolumeAt(d, gi) == IF gi \in DOMAIN d THEN d[gi] ELSE 0

\* a read-modify-write that reads the value the location had when the
\* dispatch started
StaleAdd(cur, atStart, v) == atStart + v

\* atomicAdd: the new value of a location holding cur; atStart is the value it
\* held when the dispatch started.  Counters stay far below 2^32 (at most
\* 2048 particles times 1500 * 3.4 per voxel), so no wrap-around is modelled.
AtomicAdd(cur, atStart, v) == cur + v

\* density-splat.wgsl main for particle p, on volume d of a dispatch started on d0
SplatInvocation(d, d0, p) ==
  [gi \in (DOMAIN d) \cup SplatTargets(p) |->
     LET contribution == ContribAt(p, gi)
     IN  IF contribution > 0
           THEN AtomicAdd(VolumeAt(d, gi), VolumeAt(d0, gi), contribution)
           ELSE VolumeAt(d, gi)]

\* the orders in which the invocations of a dispatch over n particles may
\* perform their atomic operations
Orders(n) == {f \in [1..n -> 1..n] : \A i, j \in 1..n : f[i] = f[j] => i = j}

RECURSIVE SplatFold(_, _, _, _, _)
SplatFold(d, d0, ps, order, k) ==
  IF k > Len(ps) THEN d
  ELSE SplatFold(SplatInvocation(d, d0, ps[order[k]]), d0, ps, order, k + 1)

\* the splat dispatch: one invocation per particle, in the given order
SplatDispatch(d, ps, order) == SplatFold(d, d, ps, order, 1)

\* density-clear.wgsl dispatched over n workgroups of 64:
\* if (idx >= 262144u) return; atomicStore(&density[idx], 0u)
DensityClear(d, n) ==
  LET cleared == Min(n * 64, GRID_VOXELS)
  IN  [gi \in {g \in DOMAIN d : g >= cleared} |-> d[gi]]

----------------------------------------------------------------------------
(* The speed histogram on the GPU (src/unnamed/part_001 = histogram.wgsl,    *)
(* src/shaders/histogram-clear.wgsl)                                         *)

\* the upper clamp of the normalised speed, in 1/10000
NormCap == 9999

\* bin without the clamp: u32(speed / max_speed * f32(num_bins))
GPUBinUnclamped(spd) == (spd * HIST_BINS) \div MaxSpeed

\* normalized = clamp(speed / max_speed, 0.0, 0.9999);
\* bin = u32(normalized * f32(num_bins));
\* the normalised speed is kept exact, in 1/(10000 * MaxSpeed)
GPUBin(spd) ==
  LET normalized == IF spd < 0 THEN 0 ELSE Min(spd * 10000, NormCap * MaxSpeed)
  IN  (normalized * HIST_BINS) \div (10000 * MaxSpeed)

\* histogram.wgsl main for particle p, on buffer h of a dispatch started on h0
HistInvocation(h, h0, p) ==
  LET bin == GPUBin(p.speed)
  IN  [h EXCEPT ![bin] = AtomicAdd(h[bin], h0[bin], 1)]

RECURSIVE HistFold(_, _, _, _, _)
HistFold(h, h0, ps, order, k) ==
  IF k > Len(ps) THEN h
  ELSE HistFold(HistInvocation(h, h0, ps[order[k]]), h0, ps, order, k + 1)

\* the binning dispatch: one invocation per particle, in the given order
HistDispatch(h, ps, order) == HistFold(h, h, ps, order, 1)

\* a plausible slip: the clear pass leaves the counters as they are
HistogramClearNothing(h, n) == h

\* histogram-clear.wgsl dispatched over n workgroups of 64:
\* if (idx >= 64u) return; atomicStore(&histogram[idx], 0u)
HistogramClear(h, n) ==
  [k \in 0..(HIST_BINS - 1) |-> IF k < Min(n * 64, 64) THEN 0 ELSE h[k]]

----------------------------------------------------------------------------
(* WebGPURenderer.frame (src/js/math-utils.js:576-656) and the mapAsync      *)
(* callbacks it registers                                                    *)

CeilDiv(a, b) == (a + b - 1) \div b

\* the passes frame() records into its first command encoder, in recording
\* order, without the density clear
FrameCommandsNoClear ==
  <<"physics", "densitySplat", "copyDensity",
    "histogramClear", "histogram", "render">>

\* the same passes with the splat recorded ahead of the physics pass
FrameCommandsSplatFirst ==
  <<"densityClear", "densitySplat", "physics", "copyDensity",
    "histogramClear", "histogram", "render">>

\* the passes frame() records into its first command encoder, in recording order
FrameCommands ==
  <<"densityClear", "physics", "densitySplat", "copyDensity",
    "histogramClear", "histogram", "render">>

\* the effect of one recorded command on the GPU memory g;
\* inp holds the uniforms of the frame, the noise and the invocation orders
ExecCommand(c, g, inp) ==
  CASE c = "densityClear" ->
         [g EXCEPT !.density = DensityClear(g.density, CeilDiv(GRID_VOXELS, 64))]
    [] c = "physics" ->
         [g EXCEPT !.particles =
            [i \in 1..Len(g.particles) |->
               GPUParticleStep(g.particles[i], inp.dt, inp.t, inp.ns[i])]]
    [] c = "densitySplat" ->
         [g EXCEPT !.splatClean = (g.density = EmptyVolume),
                   !.density = SplatDispatch(g.density, g.particles, inp.so)]
    [] c = "copyDensity" ->
         [g EXCEPT !.densityRead = g.density]
    [] c = "histogramClear" ->
         [g EXCEPT !.histogram = HistogramClear(g.histogram, 1)]
    [] c = "histogram" ->
         [g EXCEPT !.histogram = HistDispatch(g.histogram, g.particles, inp.ho)]
    [] c = "render" ->
         [g EXCEPT !.rendered = g.densityRead]
    [] c = "copyHistogram" ->
         [g EXCEPT !.rbData[inp.rbIdx] = [hist |-> g.histogram, frame |-> inp.frame]]

\* a command buffer executes its commands in recording order
RECURSIVE ExecCommands(_, _, _, _)
ExecCommands(cmds, k, g, inp) ==
  IF k > Len(cmds) THEN g
  ELSE ExecCommands(cmds, k + 1, ExecCommand(cmds[k], g, inp), inp)

\* the queue executes the submitted command buffers in submission order
RECURSIVE ExecSubmits(_, _, _, _)
ExecSubmits(subs, k, g, inp) ==
  IF k > Len(subs) THEN g
  ELSE ExecSubmits(subs, k + 1, ExecCommands(subs[k], 1, g, inp), inp)

\* a frame that issues the histogram copy whatever the mapState
ReadbackIssuedAlways(mapState) == TRUE

\* if (rbBuf.mapState === 'unmapped') { copy; submit; mapAsync; flip }
ReadbackIssued(mapState) == mapState = "unmapped"

\* a frame that keeps the readback index
NextReadbackSame(idx) == idx

\* this.currentReadback = 1 - this.currentReadback
NextReadback(idx) == 1 - idx

\* a frame that returns before recording anything while the buffer is busy
FrameSubmitsNothingWhenBusy(cmds, issue) ==
  IF issue THEN <<cmds, <<"copyHistogram">>>> ELSE <<>>

\* the command buffers frame() submits: d.queue.submit([encoder.finish()]) and,
\* when the readback is issued, d.queue.submit([copyEncoder.finish()])
FrameSubmits(cmds, issue) ==
  IF issue THEN <<cmds, <<"copyHistogram">>>> ELSE <<cmds>>

\* number of frame() calls explored: with all NumParticles particles, and
\* with a single particle (the readback protocol needs more frames than the
\* compute passes do)
MaxGPUFrames      == 2
MaxReadbackFrames == 4
FrameLimit == IF Len(particles) = 1 THEN MaxReadbackFrames ELSE MaxGPUFrames

\* dt (ms) and t_order the driver hands to frame()
FrameDtValues == {50}
FrameTValues  == {0, TScale}

\* WebGPURenderer.frame(dt, tOrder, time, camera): the buffers after the two
\* submits of frame number frames + 1
frame(dt, t) ==
     \E ns \in [1..Len(particles) -> NoiseVecs(backend)] :
     \E so \in Orders(Len(particles)), ho \in Orders(Len(particles)) :
       LET rbIdx == currentReadback
           issue == ReadbackIssued(rbState[rbIdx])
           valid == rbState[rbIdx] = "unmapped"
           subs  == FrameSubmits(FrameCommands, issue /\ valid)
           inp   == [dt |-> dt, t |-> t, ns |-> ns, so |-> so, ho |-> ho,
                     rbIdx |-> rbIdx, frame |-> frames + 1]
           g0    == [particles |-> particles, density |-> density,
                     densityRead |-> densityRead, rendered |-> renderedDensity,
                     splatClean |-> splatClean, histogram |-> histogram,
                     rbData |-> rbData]
       IN  \E g1 \in {ExecSubmits(subs, 1, g0, inp)} :
           /\ particles' = g1.particles
           /\ density' = g1.density
           /\ densityRead' = g1.densityRead
           /\ renderedDensity' = g1.rendered
           /\ splatClean' = g1.splatClean
           /\ histogram' = g1.histogram
           /\ rbData' = g1.rbData
           /\ lastSubmits' = FrameSubmits(FrameCommands, issue)
           /\ copyLog' = IF issue THEN Append(copyLog, rbIdx) ELSE copyLog
           /\ gpuError' = (gpuError \/ (issue /\ ~valid))
           /\ rbState' = IF issue THEN [rbState EXCEPT ![rbIdx] = "pending"] ELSE rbState
           /\ currentReadback' = IF issue THEN NextReadback(rbIdx) ELSE rbIdx

\* renderer.frame called on the GPU backend with any dt and t_order
GPUFrame ==
  /\ backend = "webgpu"
  /\ frames < FrameLimit
  /\ \E dt \in FrameDtValues, t \in FrameTValues : frame(dt, t)
  /\ frames' = frames + 1
  /\ UNCHANGED <<backend, home0, pendingHistogram, exposedFrame>>
  /\ UNCHANGED <<smVars, obsVars, latVars, binVars, entVars, drvVars>>

\* a plausible slip: the .then callback does not call rbBuf.unmap(), so the
\* buffer stays mapped
MapResolvedNoUnmap(i) ==
  /\ rbState[i] = "pending"
  /\ pendingHistogram' = rbData[i].hist
  /\ exposedFrame' = rbData[i].frame
  /\ rbState' = [rbState EXCEPT ![i] = "mapped"]
  /\ UNCHANGED <<backend, particles, home0, frames>>
  /\ UNCHANGED <<density, densityRead, renderedDensity, splatClean, histogram,
                 rbData, currentReadback, lastSubmits, copyLog, gpuError>>
  /\ UNCHANGED <<smVars, obsVars, latVars, binVars, entVars, drvVars>>

\* the mapAsync promise of readback buffer i resolves and its .then runs:
\*   data = new Uint32Array(rbBuf.getMappedRange().slice(0)); rbBuf.unmap();
\*   this.pendingHistogram = data
MapResolved(i) ==
  /\ rbState[i] = "pending"
  /\ pendingHistogram' = rbData[i].hist
  /\ exposedFrame' = rbData[i].frame
  /\ rbState' = [rbState EXCEPT ![i] = "unmapped"]
  /\ UNCHANGED <<backend, particles, home0, frames>>
  /\ UNCHANGED <<density, densityRead, renderedDensity, splatClean, histogram,
                 rbData, currentReadback, lastSubmits, copyLog, gpuError>>
  /\ UNCHANGED <<smVars, obsVars, latVars, binVars, entVars, drvVars>>

\* the mapAsync promise of readback buffer i rejects: .catch(() => {})
MapRejected(i) ==
  /\ rbState[i] = "pending"
  /\ rbState' = [rbState EXCEPT ![i] = "unmapped"]
  /\ UNCHANGED physVars
  /\ UNCHANGED <<density, densityRead, renderedDensity, splatClean, histogram,
                 rbData, currentReadback, exposedFrame, lastSubmits, copyLog, gpuError>>
  /\ UNCHANGED <<smVars, obsVars, latVars, binVars, entVars, drvVars>>

MapResolve == \E i \in 0..1 : MapResolved(i)
MapReject  == \E i \in 0..1 : MapRejected(i)

\* WebGPURenderer after init(): the first n particles of the lattice in the
\* particle buffer
GPUParticlesInit(n) ==
  /\ backend = "webgpu"
  /\ particles = [i \in 1..n |-> LatticeRecord(i - 1, Side(ParticleCount(backend)))]
  /\ home0 = [i \in 1..n |-> particles[i].home]
  /\ frames = 0
  /\ pendingHistogram = null

GPUInit == SMInit /\ ObsInit /\ GPUParticlesInit(NumParticles) /\ LatIdle /\ GpuBuffersInit /\ BinIdle /\ EntInit /\ DrvIdle
GPUNext == GPUFrame \/ MapResolve \/ MapReject
SpecGPU == GPUInit /\ [][GPUNext]_vars

ReadbackInit == SMInit /\ ObsInit /\ GPUParticlesInit(1) /\ LatIdle /\ GpuBuffersInit /\ BinIdle /\ EntInit /\ DrvIdle
ReadbackNext == GPUFrame \/ MapResolve \/ MapReject
SpecReadback == ReadbackInit /\ [][ReadbackNext]_vars

\* The readback protocol over an unbounded number of frames: frames are
\* called in the ORDERED state (t_order = 1), where the particle rests at its
\* home, so only the readback state changes from frame to frame.  The frame
\* numbers kept for the observer are renumbered, order preserved, every
\* FrameCap frames, and the log of copies is cut to its last entry.
FrameCap == 6

\* the frame numbers the state refers to (0: no frame)
Tags == {0, exposedFrame, rbData[0].frame, rbData[1].frame}

\* position of frame number v among the frame numbers S
Rank(v, S) == Cardinality({w \in S : w < v})

\* renumbering of the observer's frame numbers; no statement of the program
Renumber ==
  /\ backend = "webgpu"
  /\ frames = FrameCap
  /\ exposedFrame' = Rank(exposedFrame, Tags)
  /\ rbData' = [i \in 0..1 |-> [rbData[i] EXCEPT !.frame = Rank(@, Tags)]]
  /\ frames' = Cardinality(Tags) - 1
  /\ copyLog' = IF copyLog = <<>> THEN <<>> ELSE <<copyLog[Len(copyLog)]>>
  /\ UNCHANGED <<backend, particles, home0, pendingHistogram>>
  /\ UNCHANGED <<density, densityRead, renderedDensity, splatClean, histogram,
                 rbState, currentReadback, lastSubmits, gpuError>>
  /\ UNCHANGED <<smVars, obsVars, latVars, binVars, entVars, drvVars>>

\* renderer.frame called on the GPU backend in the ORDERED state
GPUFrameLive ==
  /\ backend = "webgpu"
  /\ frames < FrameCap
  /\ \E dt \in FrameDtValues : frame(dt, TScale)
  /\ frames' = frames + 1
  /\ UNCHANGED <<backend, home0, pendingHistogram, exposedFrame>>
  /\ UNCHANGED <<smVars, obsVars, latVars, binVars, entVars, drvVars>>

ReadbackLiveNext == GPUFrameLive \/ Renumber \/ MapResolve \/ MapReject

\* the steps of GPUFrameLive are the steps that count a frame
FrameCounted == frames' = frames + 1

\* the animation-frame callback keeps being called (frame() can always be
\* called, so this is weak fairness of GPUFrameLive), every mapAsync promise
\* settles, and a buffer that is mapped again and again is resolved (not
\* always rejected)
ReadbackFairness ==
  /\ []<><<FrameCounted>>_vars
  /\ WF_vars(Renumber)
  /\ \A i \in 0..1 : WF_vars(MapResolved(i) \/ MapRejected(i))
  /\ \A i \in 0..1 : SF_vars(MapResolved(i))

SpecReadbackLive == ReadbackInit /\ [][ReadbackLiveNext]_vars /\ ReadbackFairness

----------------------------------------------------------------------------
(* The splat pass on its own: one particle splatted into a cleared volume    *)

\* world coordinates of the splatted particle: below the grid, on its lower
\* face, inside the first cell, on a cell boundary at the origin, at a cell
\* centre next to it, in the last cell, above the grid
SplatCoords == {GridMin - 10, GridMin, GridMin + 3, 0, 6, GridMax - 5, GridMax + 2}
SplatSpeeds == {0, MaxSpeed}

SplatParticleInit ==
  /\ backend = "webgpu"
  /\ \E x \in SplatCoords, y \in SplatCoords, z \in SplatCoords, spd \in SplatSpeeds :
       particles = <<[pos |-> <<x, y, z>>, vel |-> <<0, 0, spd>>, speed |-> spd,
                      home |-> <<x, y, z>>]>>
  /\ home0 = <<particles[1].home>>
  /\ frames = 0
  /\ pendingHistogram = null

\* the density-splat dispatch of frame() run on the cleared volume
SplatPass ==
  /\ backend = "webgpu"
  /\ frames = 0
  /\ density = EmptyVolume
  /\ \E so \in Orders(Len(particles)) :
       density' = SplatDispatch(density, particles, so)
  /\ frames' = 1
  /\ UNCHANGED <<backend, particles, home0, pendingHistogram>>
  /\ UNCHANGED <<densityRead, renderedDensity, splatClean, histogram, rbState, rbData,
                 currentReadback, exposedFrame, lastSubmits, copyLog, gpuError>>
  /\ UNCHANGED <<smVars, obsVars, latVars, binVars, entVars, drvVars>>

SplatInit == SMInit /\ ObsInit /\ SplatParticleInit /\ LatIdle /\ GpuBuffersInit /\ BinIdle /\ EntInit /\ DrvIdle
SplatNext == SplatPass
SpecSplat == SplatInit /\ [][SplatNext]_vars

----------------------------------------------------------------------------
(* The speed binning of both backends applied to the same speed             *)

\* the speeds binned: 0 .. 16.0 in steps of 1/PosScale, and one far above
BinSpeeds == (0..(2 * MaxSpeed)) \cup {100 * MaxSpeed}

BinInit ==
  /\ binSpeed \in BinSpeeds
  /\ binGL = -1
  /\ binGPU = -1

\* histogram.wgsl main and the histogram loop of updatePhysics, for a
\* particle of speed binSpeed
BinSpeed ==
  /\ binGL = -1
  /\ binGL' = GLBin(binSpeed)
  /\ binGPU' = GPUBin(binSpeed)
  /\ UNCHANGED binSpeed
  /\ UNCHANGED <<smVars, obsVars, physVars, latVars, gpuVars, entVars, drvVars>>

BinningInit == SMInit /\ ObsInit /\ PhysIdle /\ LatIdle /\ GpuBuffersInit /\ BinInit /\ EntInit /\ DrvIdle
BinningNext == BinSpeed
SpecBinning == BinningInit /\ [][BinningNext]_vars

----------------------------------------------------------------------------
(* EntropyCalculator (src/js/entropy-calculator.js)                         *)

\* entropies are kept in 1/2^LogBits bit, normalised entropy in 1/TScale
LogBits == 10
\* the fixed point in which a mantissa in [1, 2) is squared
LogOne  == 4096

RECURSIVE Pow2(_)
Pow2(n) == IF n = 0 THEN 1 ELSE 2 * Pow2(n - 1)

\* floor(log2(d / c)) for 1 <= c <= d
RECURSIVE IntLog2(_, _)
IntLog2(c, d) == IF 2 * c > d THEN 0 ELSE 1 + IntLog2(2 * c, d)

\* the first k fractional bits of log2(y / LogOne), LogOne <= y < 2 * LogOne
RECURSIVE FracLog2(_, _)
FracLog2(y, k) ==
  IF k = 0 THEN 0
  ELSE LET y2 == (y * y) \div LogOne
       IN  IF y2 >= 2 * LogOne
             THEN Pow2(k - 1) + FracLog2(y2 \div 2, k - 1)
             ELSE FracLog2(y2, k - 1)

\* -Math.log2(c / d) for c, d >= 1
NegLog2(c, d) ==
  LET L(a, b) == IntLog2(a, b) * Pow2(LogBits)
                   + FracLog2((b * LogOne) \div (a * Pow2(IntLog2(a, b))), LogBits)
  IN  IF c <= d THEN L(c, d) ELSE -L(d, c)

\* this.maxEntropy = Math.log2(numBins)
maxEntropy == NegLog2(1, HIST_BINS)

\* the value standing for NaN
NaN == -1000000

RECURSIVE HistTotal(_, _)
HistTotal(h, k) == IF k < 0 THEN 0 ELSE HistTotal(h, k - 1) + h[k]

\* H with p = histogram[i] / numBins instead of histogram[i] / total
RECURSIVE EntropySumOverBins(_, _)
EntropySumOverBins(h, k) ==
  IF k < 0 THEN 0
  ELSE EntropySumOverBins(h, k - 1)
         + (IF h[k] > 0 THEN Div(h[k] * NegLog2(h[k], HIST_BINS), HIST_BINS) ELSE 0)

EntropyWrongDenominator(h) ==
  IF HistTotal(h, HIST_BINS - 1) = 0 THEN 0 ELSE EntropySumOverBins(h, HIST_BINS - 1)

\* H without the total === 0 return and without the histogram[i] > 0 test:
\* 0 / 0 and 0 * log2(0) are NaN
EntropyNoZeroTests(h) ==
  IF \E k \in 0..(HIST_BINS - 1) : h[k] = 0 THEN NaN
  ELSE EntropySumOverBins(h, HIST_BINS - 1)

\* the second loop of compute: H -= p * Math.log2(p) for the bins > 0,
\* p = histogram[i] / total
RECURSIVE EntropySum(_, _, _)
EntropySum(h, total, k) ==
  IF k < 0 THEN 0
  ELSE EntropySum(h, total, k - 1)
         + (IF h[k] > 0 THEN Div(h[k] * NegLog2(h[k], total), total) ELSE 0)

\* the entropy compute(histogram) arrives at
EntropyOf(h) ==
  LET total == HistTotal(h, HIST_BINS - 1)
  IN  IF total = 0 THEN 0 ELSE EntropySum(h, total, HIST_BINS - 1)

\* H / this.maxEntropy
Normalized(H) == IF H = NaN THEN NaN ELSE Div(H * TScale, maxEntropy)

\* the histograms passed to compute: all mass in at most two of the bins
\* EntBins, and the uniform histogram
EntBins   == {0, 1, 31, HIST_BINS - 1}
EntCounts == {0, 1, 2, 3, GL_PARTICLE_COUNT, GPU_PARTICLE_COUNT}
EntHistograms ==
  {[k \in 0..(HIST_BINS - 1) |-> IF k = a THEN ca ELSE IF k = b THEN cb ELSE 0] :
     a \in EntBins, b \in EntBins, ca \in EntCounts, cb \in EntCounts}
  \cup {[k \in 0..(HIST_BINS - 1) |-> GL_PARTICLE_COUNT \div HIST_BINS]}

\* entropy.compute(histogram)
compute(h) ==
  \E H \in {EntropyOf(h)} :
    /\ currentEntropy' = H
    /\ normalizedEntropy' = Normalized(H)
    /\ entReturned' = <<[entropy |-> H, normalized |-> Normalized(H)]>>
    /\ entHistogram' = <<h>>

\* compute called with any histogram
Compute ==
  \E h \in EntHistograms :
      /\ compute(h)
      /\ UNCHANGED <<smVars, obsVars, physVars, latVars, gpuVars, binVars, drvVars>>

EntropyInit == SMInit /\ ObsInit /\ PhysIdle /\ LatIdle /\ GpuBuffersInit /\ BinIdle /\ EntInit /\ DrvIdle
EntropyNext == Compute
SpecEntropy == EntropyInit /\ [][EntropyNext]_vars

----------------------------------------------------------------------------
(* The driver: main() and its requestAnimationFrame callback.  The file holds *)
(* two versions of main(); mainVersion says which one runs.                  *)

\* the ceiling of dt in the callback, ms: Math.min(dtRaw, 1 / 20)
DtCeiling == 50

\* dt as the callback would pass it without the ceiling
ClampDtNone(dtRaw) == dtRaw

\* const dt = Math.min(dtRaw, 1 / 20)
ClampDt(dtRaw) == Min(dtRaw, DtCeiling)

\* now - lastTime (ms) of a callback: the timestamp of a frame may precede
\* the performance.now() stored in lastTime, or follow it after a long pause
GapValues == {-10, 16, 5000}

\* frame callbacks explored
MaxTicks == 2

\* main() has been called
MainInit ==
  /\ mainVersion \in {"earlier", "current"}
  /\ drvPc = "detect"
  /\ useWebGPU = FALSE
  /\ canvasContext = "none"
  /\ rendererReady = FALSE
  /\ rafPending = FALSE
  /\ ticks = 0
  /\ lastTick = <<>>

\* "Detect WebGPU": useWebGPU = true iff navigator.gpu exists, the platform is
\* not iOS (current version only) and requestAdapter() returns an adapter; a
\* requestAdapter() that throws is caught
DetectWebGPU ==
  /\ drvPc = "detect"
  /\ \E navigatorGpu \in BOOLEAN, isIOS \in BOOLEAN, adapter \in {"ok", "null", "throws"} :
       useWebGPU' = /\ navigatorGpu
                    /\ ~(mainVersion = "current" /\ isIOS)
                    /\ adapter = "ok"
  /\ drvPc' = "initRenderer"
  /\ UNCHANGED <<mainVersion, canvasContext, rendererReady, rafPending, ticks, lastTick>>
  /\ UNCHANGED <<smVars, obsVars, physVars, latVars, gpuVars, binVars, entVars>>

\* outcomes of WebGPURenderer.init(): it returns, it throws before
\* canvas.getContext('webgpu') (no adapter, requestDevice), or it throws after
\* it (configure, _createBuffers, _createPipelines, _createBindGroups)
GPUInitOutcomes == {"ok", "throwsBeforeContext", "throwsAfterContext"}

\* canvas.getContext('webgl2') in WebGLFallback.init(): null when the platform
\* has no WebGL2 or the canvas is already bound to another context type
GetContextWebGL2(ctx, webgl2Supported) ==
  IF webgl2Supported /\ ctx \in {"none", "webgl2"} THEN "webgl2" ELSE "null"

\* the renderer after a successful init(): the first particle of its lattice
RendererInitialised(b) ==
  /\ backend' = b
  /\ particles' = [i \in 1..1 |-> LatticeRecord(i - 1, Side(ParticleCount(b)))]
  /\ home0' = [i \in 1..1 |-> particles'[i].home]
  /\ rendererReady' = TRUE

\* "Init renderer" and the rest of main(): the GPU renderer if useWebGPU and
\* its init() returns, else the fallback; if the fallback's init() throws too,
\* main() rejects (the current version rethrows e2, the earlier one has no
\* inner try) and nothing after it runs; otherwise the handlers are registered
\* and requestAnimationFrame(frame) starts the loop
InitRenderer ==
  /\ drvPc = "initRenderer"
  /\ \E gpuInit \in GPUInitOutcomes, webgl2Supported \in BOOLEAN :
       LET ctx1 == IF useWebGPU /\ gpuInit \in {"ok", "throwsAfterContext"}
                     THEN "webgpu" ELSE canvasContext
           gl   == GetContextWebGL2(ctx1, webgl2Supported)
       IN  IF useWebGPU /\ gpuInit = "ok"
             THEN /\ RendererInitialised("webgpu")
                  /\ canvasContext' = ctx1
                  /\ drvPc' = "loop"
                  /\ rafPending' = TRUE
                  /\ UNCHANGED useWebGPU
             ELSE /\ useWebGPU' = FALSE
                  /\ IF gl # "null"
                       THEN /\ RendererInitialised("webgl2")
                            /\ canvasContext' = gl
                            /\ drvPc' = "loop"
                            /\ rafPending' = TRUE
                       ELSE /\ backend' = "webgl2"
                            /\ canvasContext' = ctx1
                            /\ drvPc' = "failed"
                            /\ UNCHANGED <<particles, home0, rendererReady, rafPending>>
  /\ UNCHANGED <<mainVersion, ticks, lastTick, frames, pendingHistogram>>
  /\ UNCHANGED <<smVars, obsVars, latVars, gpuVars, binVars, entVars>>

\* renderer.frame(dt, tOrder, totalTime, camera) of the renderer in use.  When
\* it throws, the GPU renderer throws before anything is submitted
\* (getCurrentTexture, math-utils.js:621) and the fallback after updatePhysics,
\* in its draw calls (webgl-fallback.js:290-370)
RendererFrame(dt, t, throws) ==
  IF backend = "webgpu"
    THEN IF throws
           THEN UNCHANGED <<particles, pendingHistogram, gpuVars>>
           ELSE frame(dt, t) /\ UNCHANGED <<pendingHistogram, exposedFrame>>
    ELSE updatePhysics(dt, t) /\ UNCHANGED gpuVars

\* frame(now), the requestAnimationFrame callback: it re-arms itself first,
\* clamps dt, updates the state machine, calls renderer.frame (inside
\* try/catch in the current version only), then reads the histogram and
\* updates the entropy and the UI.  An exception leaving renderer.frame in the
\* earlier version ends the callback there
FrameCallback ==
  /\ drvPc = "loop"
  /\ rafPending
  /\ ticks < MaxTicks
  /\ \E gap \in GapValues, throws \in BOOLEAN :
       LET dt      == ClampDt(gap)
           escaped == throws /\ mainVersion = "earlier"
       IN  /\ Update(dt)
           /\ ObserveUpdate(dt)
           /\ RendererFrame(dt, tOrder', throws)
           /\ IF ~escaped /\ pendingHistogram' # null
                THEN compute(pendingHistogram')
                ELSE UNCHANGED entVars
           /\ lastTick' = <<[gap |-> gap, dtUpdate |-> dt, dtFrame |-> dt, threw |-> throws,
                             escaped |-> escaped, restRan |-> ~escaped]>>
  /\ rafPending' = TRUE
  /\ frames' = frames + 1
  /\ ticks' = ticks + 1
  /\ UNCHANGED <<backend, home0, latVars, binVars>>
  /\ UNCHANGED <<mainVersion, drvPc, useWebGPU, canvasContext, rendererReady>>

\* the canvas 'click' / 'touchend' handlers, registered once init has succeeded
DriverClick ==
  /\ drvPc = "loop"
  /\ CanvasClick

\* a mapAsync promise of the GPU renderer settles between two callbacks
DriverMapSettles ==
  /\ drvPc = "loop"
  /\ MapResolve \/ MapReject

DriverInit == SMInit /\ ObsInit /\ PhysIdle /\ LatIdle /\ GpuBuffersInit /\ BinIdle /\ EntInit /\ MainInit
DriverNext == DetectWebGPU \/ InitRenderer \/ FrameCallback \/ DriverClick \/ DriverMapSettles
SpecDriver == DriverInit /\ [][DriverNext]_vars

----------------------------------------------------------------------------
(* Claims about the state machine, checked under Spec *)

Transitioning == state = SHATTERING \/ state = REASSEMBLING
IsClickStep   == lastOp' = "click" \/ lastOp' = "canvasClick"

\* C1: click() while SHATTERING or REASSEMBLING changes none of state, tOrder,
\* transitionProgress, transitionDuration, elapsed, and is not queued: the
\* transition completes into its own stable state (SHATTERING into CHAOS,
\* REASSEMBLING into ORDERED) and update(dt) never leaves a stable state.
C1_ClickDuringTransitionIgnored ==
  [][ /\ (Transitioning /\ IsClickStep) => UNCHANGED smVars
      /\ (state = SHATTERING /\ state' # state) => state' = CHAOS
      /\ (state = REASSEMBLING /\ state' # state) => state' = ORDERED
      /\ (canClick /\ lastOp' = "update") => UNCHANGED smVars ]_vars

\* a click was ignored during the shatter transition, the transition completed and
\* a later update with dt > 0 left the machine in CHAOS
C1_Witness ==
  /\ ignoredClick /\ clickFrom = ORDERED
  /\ state = CHAOS /\ lastOp = "update" /\ acc > elapsed

\* C2: after click() in ORDERED, the state is SHATTERING while the dt accumulated
\* since the click is below 1.5 s, and is CHAOS with t_order = 0 as soon as the
\* accumulated dt is >= 1.5 s; 15 updates with dt = 0.1 s reach CHAOS, t_order = 0.
C2_ShatterCompletesAtDuration ==
  clickFrom = ORDERED =>
    /\ acc < ShatterDuration => state = SHATTERING
    /\ acc >= ShatterDuration => (state = CHAOS /\ tOrder = 0)
    /\ tenthRun = 15 => (state = CHAOS /\ tOrder = 0)

\* exactly 15 updates of 0.1 s after the click
C2_Witness ==
  clickFrom = ORDERED /\ tenthRun = 15 /\ state = CHAOS /\ tOrder = 0

\* C3: after click() in CHAOS the state is REASSEMBLING with duration 2.0 s and
\* elapsed/progress restarted from 0; it becomes ORDERED with t_order = 1 exactly
\* when the dt accumulated since the click is >= 2.0 s, not before.
C3_ReassembleCompletesAtDuration ==
  clickFrom = CHAOS =>
    /\ transitionDuration = ReassembleDuration
    /\ acc < ReassembleDuration =>
         /\ state = REASSEMBLING
         /\ elapsed = acc
         /\ transitionProgress = Progress(acc, ReassembleDuration)
    /\ acc >= ReassembleDuration => (state = ORDERED /\ tOrder = TScale)

\* the reassembly completed on an update that crossed 2.0 s
C3_Witness ==
  /\ clickFrom = CHAOS /\ state = ORDERED /\ tOrder = TScale
  /\ lastOp = "update" /\ elapsed >= ReassembleDuration

\* C4: t_order lies in [0,1] in every reachable state.
C4_TOrderInUnitInterval == 0 <= tOrder /\ tOrder <= TScale

\* an intermediate value produced by the second branch of easeInOutQuad
C4_Witness ==
  /\ state = REASSEMBLING /\ 2 * transitionProgress >= TScale
  /\ 0 < tOrder /\ tOrder < TScale

\* C5: ORDERED implies t_order = 1 and CHAOS implies t_order = 0.
C5_StableStatesPinTOrder ==
  /\ state = ORDERED => tOrder = TScale
  /\ state = CHAOS => tOrder = 0

\* ORDERED reached again after a full shatter/reassemble cycle
C5_Witness == clickFrom = CHAOS /\ state = ORDERED /\ lastOp = "update"

----------------------------------------------------------------------------
(* Claims about the particle integrator, checked under SpecPhysics *)

\* C6: after every integration step the stored velocity of each particle has
\* magnitude <= 8.0, in the GPU kernel and in the CPU fallback.
C6_StoredVelocityWithinMaxSpeed ==
  \A i \in 1..Len(particles) : Length(particles[i].vel) <= MaxSpeed

\* C7: at the end of every integration step each particle's stored speed equals
\* the magnitude of its stored velocity, in the GPU kernel and in the CPU fallback.
C7_SpeedIsMagnitudeOfStoredVelocity ==
  \A i \in 1..Len(particles) : particles[i].speed = Length(particles[i].vel)

\* C8: every particle keeps the home_position it was given at initialisation and
\* the number of particles stays constant, whatever dt and t_order are passed.
C8_HomeAndCountPreserved ==
  /\ Len(particles) = Len(home0)
  /\ \A i \in 1..Len(particles) : particles[i].home = home0[i]

\* integration steps have run and moved a particle away from its home
C8_Witness ==
  /\ frames >= 2
  /\ \E i \in 1..Len(particles) :
       particles[i].pos # particles[i].home /\ particles[i].vel # <<0, 0, 0>>

----------------------------------------------------------------------------
(* Claims about lattice generation, checked under SpecLattice *)

LatHomes == {latParticles[i].home : i \in 1..Len(latParticles)}
Neg(v)   == <<-v[1], -v[2], -v[3]>>

\* every record written so far is the one the closed form LatticeRecord gives
\* (the form the integrator model starts from)
LatticeMatchesClosedForm ==
  \A i \in 1..latIdx : latParticles[i] = LatticeRecord(i - 1, LatSide)

\* C9: lattice generation for N = 512 places exactly 512 particles (no record is
\* left unfilled) and their 512 home positions are pairwise distinct.
C9_Lattice512FilledAndDistinct ==
  (latPc = "done" /\ backend = "webgl2") =>
    /\ latIdx = GL_PARTICLE_COUNT
    /\ Len(latParticles) = GL_PARTICLE_COUNT
    /\ Cardinality(LatHomes) = GL_PARTICLE_COUNT

\* the fallback's loops have ended, with the last record written
C9_Witness ==
  /\ latPc = "done" /\ backend = "webgl2"
  /\ latParticles[GL_PARTICLE_COUNT] # ZeroRecord

\* C10: the set of home positions generated for N = 512 is symmetric about the
\* origin: for every home position h in the set, -h is in the set.
C10_Lattice512SymmetricAboutOrigin ==
  (latPc = "done" /\ backend = "webgl2") =>
    \A h \in LatHomes : Neg(h) \in LatHomes

----------------------------------------------------------------------------
(* Claims about the GPU frame, checked under SpecGPU *)

RECURSIVE SumContrib(_, _, _)
SumContrib(ps, gi, k) ==
  IF k = 0 THEN 0 ELSE SumContrib(ps, gi, k - 1) + ContribAt(ps[k], gi)

\* the volume holding, in every voxel, the sum of what each particle of ps
\* contributes to it
SplatSum(ps) ==
  [gi \in UNION {SplatTargets(ps[i]) : i \in 1..Len(ps)} |-> SumContrib(ps, gi, Len(ps))]

\* the histogram counting, in every bin, the particles of ps whose speed
\* falls into it
HistCount(ps) ==
  [k \in 0..(HIST_BINS - 1) |-> Cardinality({i \in 1..Len(ps) : GPUBin(ps[i].speed) = k})]

\* C11: in every frame all voxels of the density volume are zero when the
\* splat pass starts, so the volume the render pass samples in a frame is the
\* sum of that frame's splat contributions only, with nothing carried over
\* from earlier frames.
C11_DensityHoldsThisFrameOnly ==
  frames > 0 => (splatClean /\ renderedDensity = SplatSum(particles))

\* a second frame has rendered a non-empty volume after starting its splat on zeros
C11_Witness ==
  /\ frames >= 2
  /\ renderedDensity # EmptyVolume
  /\ splatClean

\* C12: one frame runs clear density, physics, splat, clear histogram, bin
\* histogram, render in that order: the splat and the binning read the
\* particles the same frame's physics pass wrote, and the render pass samples
\* a copy of the density taken after the same frame's splat.
C12_StagesInOrder ==
  frames > 0 =>
    /\ SelectSeq(lastSubmits[1], LAMBDA c : c # "copyDensity") =
         <<"densityClear", "physics", "densitySplat", "histogramClear", "histogram", "render">>
    /\ density = SplatSum(particles)
    /\ histogram = HistCount(particles)
    /\ densityRead = density
    /\ renderedDensity = densityRead

\* a frame in which the physics pass moved a particle into another speed bin
C12_Witness ==
  /\ frames > 0
  /\ \E i \in 1..Len(particles) :
       /\ particles[i].pos # particles[i].home
       /\ GPUBin(particles[i].speed) > 0
  /\ histogram = HistCount(particles)

\* C14: the density volume after the splat dispatch and the histogram after
\* the binning dispatch are the same for every order in which the
\* per-particle invocations perform their atomicAdd: every addition lands.
C14_DispatchResultsOrderIndependent ==
  frames > 0 =>
    /\ \A gi \in (DOMAIN density) \cup (DOMAIN SplatSum(particles)) :
         VolumeAt(density, gi) = SumContrib(particles, gi, Len(particles))
    /\ \A k \in 0..(HIST_BINS - 1) :
         histogram[k] = Cardinality({i \in 1..Len(particles) : GPUBin(particles[i].speed) = k})

\* two invocations added to the same voxel and to the same bin
C14_Witness ==
  /\ frames > 0
  /\ Len(particles) >= 2
  /\ \E gi \in DOMAIN density :
       ContribAt(particles[1], gi) > 0 /\ ContribAt(particles[2], gi) > 0
  /\ GPUBin(particles[1].speed) = GPUBin(particles[2].speed)

----------------------------------------------------------------------------
(* Claims about the splat kernel, checked under SpecSplat *)

\* the particle sits at the centre of a grid cell (all three grid coordinates
\* end in .5) and does not move
StationaryAtCellCentre(p) ==
  /\ p.speed = 0
  /\ \A k \in 1..3 : worldToGrid(p.pos[k]) % GSub = GSub \div 2

\* C13: when a single stationary particle at the centre of a grid cell is
\* splatted, every cell whose centre is farther than splat_radius (2.0
\* cells) from the particle receives a contribution of exactly zero.
C13_NothingBeyondSplatRadius ==
  (frames = 1 /\ Len(particles) = 1 /\ StationaryAtCellCentre(particles[1])) =>
    \A gi \in DOMAIN density :
      SplatDist2(particles[1], CellOf(gi)) <= GSub * GSub * splat_radius * splat_radius

\* C26: the splat pass never writes outside the density grid: for any
\* particle position, also outside the world bounds [-3.5, 3.5]^3, every
\* accumulated cell is a cell of the splat loop with all three coordinates in
\* 0..63 and its linear index is in 0..262143; cells outside are skipped.
C26_SplatStaysInsideGrid ==
  \A gi \in DOMAIN density :
    \E i \in 1..Len(particles) :
      /\ gi \in 0..(GRID_VOXELS - 1)
      /\ \A k \in 1..3 :
           /\ CellOf(gi)[k] \in 0..(GRID_RES - 1)
           /\ CellOf(gi)[k] >= SplatCenter(particles[i])[k] - splat_radius
           /\ CellOf(gi)[k] <= SplatCenter(particles[i])[k] + splat_radius

\* a particle beyond the grid on the x axis and below it on the y axis has
\* been splatted and has reached some cells of the grid
C26_Witness ==
  /\ frames = 1
  /\ particles[1].pos[1] > GridMax
  /\ particles[1].pos[2] < GridMin
  /\ DOMAIN density # {}

----------------------------------------------------------------------------
(* Claims about the speed binning, checked under SpecBinning *)

\* C15: for every speed >= 0 the GPU binning
\* floor(clamp(speed / 8, 0, 0.9999) * 64) and the fallback binning
\* min(floor(speed / 8 * 64), 63) select the same bin, and it is in 0..63.
C15_BackendsSelectSameBin ==
  binGL # -1 =>
    /\ binGPU = binGL
    /\ binGPU >= 0 /\ binGPU <= HIST_BINS - 1

\* a speed of at least max_speed was binned by both backends into the last bin
C15_Witness ==
  /\ binSpeed >= MaxSpeed
  /\ binGL = HIST_BINS - 1
  /\ binGPU = HIST_BINS - 1

----------------------------------------------------------------------------
(* Claims about the histogram readback, checked under SpecReadback *)

IsFrameStep == frames' = frames + 1
Commands(cmds) == {cmds[k] : k \in 1..Len(cmds)}

\* C16: frame() issues a histogram copy and a mapAsync for the current
\* readback buffer only when that buffer is unmapped; when it is still
\* pending, the frame issues no copy and no second mapAsync on it, does not
\* advance the buffer index, leaves the exposed histogram unchanged and
\* raises no error.
C16_ReadbackOnlyWhenUnmapped ==
  [][ IsFrameStep =>
        IF rbState[currentReadback] = "unmapped"
          THEN /\ copyLog' = Append(copyLog, currentReadback)
               /\ rbState' = [rbState EXCEPT ![currentReadback] = "pending"]
               /\ ~gpuError'
          ELSE /\ copyLog' = copyLog
               /\ Len(lastSubmits') = 1
               /\ rbState' = rbState
               /\ currentReadback' = currentReadback
               /\ pendingHistogram' = pendingHistogram
               /\ ~gpuError' ]_vars

\* the last frame found its readback buffer pending and skipped the copy
C16_Witness ==
  /\ frames > Len(copyLog)
  /\ Len(lastSubmits) = 1
  /\ rbState[currentReadback] = "pending"
  /\ ~gpuError

\* C17: any two consecutively issued histogram copies target different
\* readback buffers, so while the buffer of one copy is being read
\* asynchronously the next copy goes to the other buffer.
C17_ConsecutiveCopiesAlternate ==
  \A k \in 1..(Len(copyLog) - 1) : copyLog[k] # copyLog[k + 1]

\* a copy was issued while the buffer of the copy before it was still pending
C17_Witness ==
  /\ Len(copyLog) >= 2
  /\ Len(lastSubmits) = 2
  /\ rbState[copyLog[Len(copyLog) - 1]] = "pending"
  /\ rbState[copyLog[Len(copyLog)]] = "pending"
  /\ copyLog[Len(copyLog)] # copyLog[Len(copyLog) - 1]

\* C18: every call of frame() submits the command buffer holding the compute
\* passes and the render pass, whatever the state of the two readback
\* buffers; the histogram copy is not part of it but goes into a separate,
\* later submission.
C18_MainSubmitEveryFrame ==
  frames > 0 =>
    /\ Len(lastSubmits) \in {1, 2}
    /\ {"physics", "densitySplat", "histogram", "render"} \subseteq Commands(lastSubmits[1])
    /\ "copyHistogram" \notin Commands(lastSubmits[1])
    /\ Len(lastSubmits) = 2 => lastSubmits[2] = <<"copyHistogram">>

\* a frame was rendered while both readback buffers were waiting for mapAsync
C18_Witness ==
  /\ frames >= 3
  /\ rbState[0] = "pending" /\ rbState[1] = "pending"
  /\ "render" \in Commands(lastSubmits[1])
  /\ renderedDensity # EmptyVolume

----------------------------------------------------------------------------
(* Claims about EntropyCalculator, checked under SpecEntropy *)

NonZeroBins(h) == {k \in 0..(HIST_BINS - 1) : h[k] > 0}

\* C19: compute on a histogram whose counts are all zero returns
\* {entropy: 0, normalized: 0} and sets currentEntropy and normalizedEntropy
\* to 0; it never produces NaN.
C19_AllZeroHistogramGivesZero ==
  /\ currentEntropy # NaN /\ normalizedEntropy # NaN
  /\ (entHistogram # <<>> /\ NonZeroBins(entHistogram[1]) = {}) =>
       /\ entReturned = <<[entropy |-> 0, normalized |-> 0]>>
       /\ currentEntropy = 0
       /\ normalizedEntropy = 0

\* compute was called on the all-zero histogram
C19_Witness ==
  /\ entHistogram = <<ZeroHistogram>>
  /\ entReturned # <<>>
  /\ currentEntropy = 0

\* C20: compute on any histogram with all of its non-zero mass in a single
\* bin returns entropy 0 and normalized 0, whichever bin it is and whatever
\* the count.
C20_SingleBinGivesZero ==
  (entHistogram # <<>> /\ Cardinality(NonZeroBins(entHistogram[1])) = 1) =>
    /\ entReturned[1].entropy = 0
    /\ entReturned[1].normalized = 0

\* compute was called with all 2048 particles in the last bin
C20_Witness ==
  /\ entHistogram # <<>>
  /\ NonZeroBins(entHistogram[1]) = {HIST_BINS - 1}
  /\ entHistogram[1][HIST_BINS - 1] = GPU_PARTICLE_COUNT
  /\ entReturned[1].entropy = 0

----------------------------------------------------------------------------
(* Claims about the driver, checked under SpecDriver                        *)

\* a frame callback has run
Ticked == lastTick # <<>>

\* C21: every dt the callback passes to stateMachine.update and to
\* renderer.frame is at most 1/20 s (50 ms), whatever the gap between two
\* timestamps, and both calls of one tick receive the same dt.
C21_DtAtMostCeilingAndShared ==
  Ticked =>
    /\ lastTick[1].dtUpdate <= DtCeiling
    /\ lastTick[1].dtFrame <= DtCeiling
    /\ lastTick[1].dtUpdate = lastTick[1].dtFrame

\* a callback that followed a pause of 5 s has passed 50 ms to both
C21_Witness ==
  /\ Ticked
  /\ lastTick[1].gap > DtCeiling
  /\ lastTick[1].dtUpdate = DtCeiling
  /\ lastTick[1].dtFrame = DtCeiling

\* C22: if renderer.frame throws during a tick, the exception does not leave
\* the frame callback, the rest of the tick (histogram read, entropy update,
\* UI update) still runs, and the next tick is scheduled.
C22_FrameExceptionSwallowed ==
  (Ticked /\ lastTick[1].threw) =>
    /\ ~lastTick[1].escaped
    /\ lastTick[1].restRan
    /\ rafPending

\* C23: once main() is past "Init renderer", if the GPU renderer is not the
\* one in use then an initialised WebGLFallback is and the loop is started
\* with it; the loop is never started without an initialised renderer.
C23_FallbackAlwaysInitialised ==
  /\ (drvPc \in {"loop", "failed"} /\ ~(backend = "webgpu" /\ rendererReady)) =>
       (backend = "webgl2" /\ rendererReady /\ drvPc = "loop" /\ rafPending)
  /\ rafPending => rendererReady

\* C27: every non-absent histogram getHistogram returns has exactly 64
\* counters whose sum is the number of particles of the backend: every
\* particle of one frame is counted exactly once and nothing is left over
\* from another frame or from a binning pass that has not finished.  (The
\* model keeps the first particle of the 512 or 2048.)
C27_HistogramCountsEveryParticleOnce ==
  pendingHistogram # null =>
    /\ DOMAIN pendingHistogram = 0..(HIST_BINS - 1)
    /\ HistTotal(pendingHistogram, HIST_BINS - 1) = Len(particles)
    /\ backend = "webgl2" => pendingHistogram = GLHistogram(particles)

\* the GPU renderer has exposed the histogram of its second frame
C27_Witness ==
  /\ backend = "webgpu"
  /\ pendingHistogram # null
  /\ exposedFrame = 2
  /\ ticks = 2

\* main() rejected although the GPU detection had succeeded: the GPU
\* renderer's init() threw after binding the canvas to a 'webgpu' context
FallbackBlockedByGPUContext == drvPc = "failed" /\ canvasContext = "webgpu"

\* C25: the progress value handed to easeOutCubic and easeInOutQuad
\* (this.transitionProgress) is within [0,1] for every dt the driver passes
\* to update(dt).
C25_ProgressInUnitInterval ==
  0 <= transitionProgress /\ transitionProgress <= TScale

----------------------------------------------------------------------------
(* A further claim about the state machine, checked under Spec              *)

\* the transitions of the cycle ORDERED -> SHATTERING -> CHAOS -> REASSEMBLING -> ORDERED
Cycle == {<<ORDERED, SHATTERING>>, <<SHATTERING, CHAOS>>,
          <<CHAOS, REASSEMBLING>>, <<REASSEMBLING, ORDERED>>}

\* C30: under any interleaving of click() and update(dt) the state changes
\* only along the cycle; ORDERED and CHAOS are left only by click(),
\* SHATTERING and REASSEMBLING only by update(dt), and update(dt) in ORDERED
\* or CHAOS changes nothing.
C30_StateFollowsCycle ==
  [][ /\ (state' # state) => <<state, state'>> \in Cycle
      /\ (state' # state /\ state \in {ORDERED, CHAOS}) => IsClickStep
      /\ (state' # state /\ state \in {SHATTERING, REASSEMBLING}) => lastOp' = "update"
      /\ (lastOp' = "update" /\ state \in {ORDERED, CHAOS}) => UNCHANGED smVars
    ]_vars

\* the whole cycle has been walked and update(dt) has been called in ORDERED
\* after it
C30_Witness ==
  /\ state = ORDERED
  /\ clickFrom = CHAOS
  /\ lastOp = "update"
  /\ acc = AccCap

----------------------------------------------------------------------------
(* Further claims about the histogram readback, checked under SpecReadback  *)

\* C28: the histograms exposed through getHistogram are in frame order under
\* every completion order of the two mapAsync callbacks: once the histogram
\* copied in frame k is exposed, one copied in an earlier frame is never
\* exposed afterwards.
C28_ExposedInFrameOrder == [][exposedFrame' >= exposedFrame]_vars

\* the last frame skipped the histogram copy / issued it
SkippedCopy == Len(lastSubmits) = 1
IssuedCopy  == Len(lastSubmits) = 2

\* C29: if frames keep ticking and every mapAsync settles, the readback does
\* not stall for good: after a frame that skipped the copy a later frame
\* issues a copy again, and while mapAsync resolves the exposed histogram is
\* replaced by one of a newer frame infinitely often.  Checked under
\* SpecReadbackLive.
C29_ReadbackNeverStalls ==
  /\ SkippedCopy ~> IssuedCopy
  /\ []<><<exposedFrame' > exposedFrame>>_vars

\* a frame has skipped the copy after a histogram was exposed
C29_Witness ==
  /\ SkippedCopy
  /\ exposedFrame > 0
  /\ rbState[currentReadback] = "pending"

----------------------------------------------------------------------------
(* Claim about spring relaxation, checked under SpecRelax                   *)

\* the distance within which a particle counts as home, in 1/PosScale.  The
\* model's positions advance in whole steps of 1/PosScale per 16 ms, that is
\* only at speeds of 0.63 and more, which the spring reaches only from a
\* displacement of 0.16 on an axis: a particle stops up to 0.15 per axis
\* (0.26 in distance) short of its home
RelaxEpsilon == 30

AllNearHome ==
  \A i \in 1..Len(particles) :
    Length(VSub(particles[i].pos, particles[i].home)) <= RelaxEpsilon

\* C24: with t_order = 1 and dt = 0.016 held for all steps, from any particle
\* state the simulation can reach, repeated integration steps eventually
\* bring every particle within epsilon of its home_position and keep it there.
C24_RelaxesToHome == <>[]AllNearHome

\* a particle that was displaced has come to rest within epsilon of its home
C24_Witness ==
  /\ AllNearHome
  /\ particles[1].vel = <<0, 0, 0>>
  /\ particles[1].pos # particles[1].home

====
